---- MODULE Spec2Model ----
(***************************************************************************)
(* Verification model of the rCore teaching kernel's synchronization       *)
(* primitives (os/src/sync/mutex.rs, os/src/sync/semaphore.rs) and of the  *)
(* memory-mapping syscalls (os/src/syscall/process.rs).                    *)
(*                                                                         *)
(* The kernel actions constrain kernel state only.  Each specification     *)
(* conjoins to them the history variables its properties read:             *)
(*   SpecMutex : lock / unlock / yield on one MutexBlocking                *)
(*   SpecSem   : down / up / yield on one Semaphore                        *)
(*   SpecSync  : all five operations, threads using both primitives        *)
(*   SpecMem, SpecRoundTrip, SpecUnmap : sys_mmap / sys_munmap on one      *)
(*               address space                                             *)
(***************************************************************************)
EXTENDS Integers, Sequences, FiniteSets, TLC

\* ------------------------------------------------------------------ bounds
NTasks == 3
MaxCalls == 3
MaxResCount == 2
MaxCount == 2
MaxAlloc == 2
NPages == 2
MaxAreas == 2
NFrames == 3
MaxChildren == 2
MaxDispatch == 14

Tasks == 0 .. (NTasks - 1)
NoTask == 0 - 1

VARIABLES
    \* scheduler (task manager / processor)
    task_status,      \* tid -> "Ready" | "Running" | "Blocked"
    ready_queue,      \* the ready pool: tid -> number of entries
    current,          \* the running task, NoTask when the processor idles
    blocked_in,       \* tid -> "none" | "mutex" | "sem": the call the task is suspended in
    panicked,         \* an assertion failed, the kernel halted
    \* MutexBlockingInner
    locked, allocate_tid, wait_queue,
    \* SemaphoreInner (sem_ prefix), res_count is the argument of Semaphore::new
    res_count, count, sem_allocate_tid, sem_wait_queue,
    \* history of the callers (not kernel state)
    last_call,        \* the last mutex operation called
    mheld,            \* tasks that acquired the mutex and have not called unlock since
    last_acquirer,    \* the task that acquired the mutex most recently
    stray_unlock,     \* some unlock was called by a task that did not hold the mutex
    sheld,            \* tid -> units of the semaphore the task holds
    block_order,      \* the blocked tasks, in the order they blocked
    n_down, n_down_nb, n_up,  \* down calls, down calls that did not block, up calls
    \* MemorySet of the current task
    areas,            \* the MapAreas of the Vec (their order is never read):
                      \* [start, end) in pages, and the permission set
    page_table,       \* vpn -> permission flags of the entry, {} when not valid
    \* history of the memory syscalls
    mm_call,          \* the last syscall: which, and what its arguments were like
    mm_ret,           \* what it returned
    rt,               \* the mmap / munmap / mmap sequence being observed
    um,               \* the last syscall, as sys_munmap's range relates to the areas
    \* frame allocator / PageTable: the physical frame behind each mapped page
    frame_of,         \* vpn -> ppn, NoFrame when the page is not mapped
    \* TaskControlBlockInner of the calling process
    children,         \* Vec<Arc<TaskControlBlock>>: [pid, zombie, exit_code] each
    \* history of the syscalls that write through a user pointer
    io,               \* the last one: which, its arguments, its result, the bytes written
    \* scheduling fields of the TaskControlBlockInner
    priority, stride, pass,
    \* history of the stride scheduler
    sp,               \* the last sys_set_priority: its argument and its result
    n_disp,           \* the window observed: count, tid -> dispatches of the task in it;
                      \* from, the tasks dispatched between the last change of a
                      \* priority and the start of the window
    n_sched,          \* dispatches and sys_set_priority calls made in all, and the
                      \* tasks dispatched since the last change of a priority
    \* MutexSpin (spin_ prefix)
    spin_locked, spin_allocate_tid,
    spinning,         \* the tasks inside the loop of MutexSpin::lock
    \* history of the spin mutex
    spin_call,        \* the last call: which, what get_allocation returned, and the
                      \* task whose lock() acquired the mutex last
    \* exclusive-access cells
    borrows,          \* tid -> the cells a suspended task has left borrowed
    double_borrow,    \* a cell was borrowed while it was borrowed
    \* one inode of the file system and the directory entries that name it
    nlink,            \* its link count
    names,            \* the names of the root directory linked to it
    cleared,          \* its data has been cleared
    \* history of the link syscalls
    fs_call           \* the last call and what it returned; the linkat and the
                      \* unlinkat calls that returned 0; whether the last call
                      \* cleared the data

sched_vars == <<task_status, ready_queue, current, blocked_in, panicked>>
mutex_vars == <<locked, allocate_tid, wait_queue>>
sem_vars == <<res_count, count, sem_allocate_tid, sem_wait_queue>>
mutex_obs == <<last_call, mheld, last_acquirer, stray_unlock>>
sem_obs == <<sheld, n_down, n_down_nb, n_up>>

sync_obs == <<mutex_obs, sem_obs, block_order>>
mem_vars == <<areas, page_table>>
mem_obs == <<mm_call, mm_ret, rt, um>>

\* state of the later sections of the model
stride_vars == <<priority, stride, pass>>
stride_obs == <<sp, n_disp, n_sched>>
spin_vars == <<spin_locked, spin_allocate_tid, spinning, spin_call>>
cell_vars == <<borrows, double_borrow>>
fs_vars == <<nlink, names, cleared, fs_call>>
late_vars == <<frame_of, children, io, stride_vars, stride_obs, spin_vars, cell_vars, fs_vars>>

vars == <<sched_vars, mutex_vars, sem_vars, sync_obs, mem_vars, mem_obs, late_vars>>

\* ------------------------------------------------------------ sequences
RemoveAt(s, i) == SubSeq(s, 1, i - 1) \o SubSeq(s, i + 1, Len(s))

\* (mutant) the queue served from its tail
pop_back(q) == [task |-> q[Len(q)], rest |-> SubSeq(q, 1, Len(q) - 1)]

\* VecDeque::pop_front: the element popped and the rest
pop_front(q) == [task |-> Head(q), rest |-> Tail(q)]

\* the scan of Semaphore::up: remove the first occurrence of tid, if any
remove_first(v, tid) ==
    IF \E i \in 1 .. Len(v) : v[i] = tid
    THEN RemoveAt(v, CHOOSE i \in 1 .. Len(v) :
                        v[i] = tid /\ \A j \in 1 .. (i - 1) : v[j] # tid)
    ELSE v

\* `res_count as isize`: two's complement reinterpretation of the unsigned
\* word, ISIZE_BITS wide (the kernel's is 64 bits wide; the width is scaled
\* down with the other bounds).
ISIZE_BITS == 8
as_isize(n) == IF n < 2 ^ (ISIZE_BITS - 1) THEN n ELSE n - 2 ^ ISIZE_BITS

\* ------------------------------------------------------------ scheduler
\* wakeup_task: Blocked -> Ready, re-inserted into the ready pool
wakeup_task(st, rq, t) ==
    [status |-> [st EXCEPT ![t] = "Ready"], queue |-> [rq EXCEPT ![t] = @ + 1]]

\* The processor picks a Ready task from the pool (the pick is left open: the
\* stride order is decided by pass values this model does not carry) and the
\* picked task resumes, which ends the lock()/down() call it was suspended in.
run_next(st, rq, bi) ==
    IF \A t \in Tasks : rq[t] = 0
    THEN /\ current' = NoTask
         /\ task_status' = st
         /\ ready_queue' = rq
         /\ blocked_in' = bi
    ELSE \E t \in Tasks :
            /\ rq[t] > 0
            /\ current' = t
            /\ task_status' = [st EXCEPT ![t] = "Running"]
            /\ ready_queue' = [rq EXCEPT ![t] = @ - 1]
            /\ blocked_in' = [bi EXCEPT ![t] = "none"]

\* block_current_and_run_next
block_current_and_run_next(bi) ==
    run_next([task_status EXCEPT ![current] = "Blocked"], ready_queue, bi)

\* suspend_current_and_run_next
suspend_current_and_run_next ==
    run_next([task_status EXCEPT ![current] = "Ready"],
             [ready_queue EXCEPT ![current] = @ + 1], blocked_in)

Runnable == current # NoTask /\ ~panicked

\* ------------------------------------------------------------ MutexBlocking
\* (mutant) lock() that tests the wait queue instead of the locked flag
MutexBlocking_lock_tests_queue ==
    /\ Runnable
    /\ IF wait_queue # <<>>
       THEN /\ wait_queue' = Append(wait_queue, current)
            /\ block_current_and_run_next([blocked_in EXCEPT ![current] = "mutex"])
            /\ UNCHANGED <<locked, allocate_tid>>
       ELSE /\ allocate_tid' = current
            /\ locked' = TRUE
            /\ UNCHANGED <<wait_queue, task_status, ready_queue, current, blocked_in>>
    /\ UNCHANGED <<panicked, sem_vars>>

MutexBlocking_lock ==
    /\ Runnable
    /\ IF locked
       THEN /\ wait_queue' = Append(wait_queue, current)
            /\ block_current_and_run_next([blocked_in EXCEPT ![current] = "mutex"])
            /\ UNCHANGED <<locked, allocate_tid>>
       ELSE /\ allocate_tid' = current
            /\ locked' = TRUE
            /\ UNCHANGED <<wait_queue, task_status, ready_queue, current, blocked_in>>
    /\ UNCHANGED <<panicked, sem_vars>>

\* (mutant) unlock() that clears locked also when it wakes a waiter
MutexBlocking_unlock_releasing ==
    /\ Runnable
    /\ IF ~locked
       THEN /\ panicked' = TRUE
            /\ UNCHANGED <<mutex_vars, task_status, ready_queue>>
       ELSE /\ IF wait_queue # <<>>
               THEN LET p == pop_front(wait_queue)
                        w == wakeup_task(task_status, ready_queue, p.task)
                    IN  /\ wait_queue' = p.rest
                        /\ task_status' = w.status
                        /\ ready_queue' = w.queue
                        /\ locked' = FALSE
                        /\ UNCHANGED allocate_tid
               ELSE /\ locked' = FALSE
                    /\ UNCHANGED <<wait_queue, allocate_tid, task_status, ready_queue>>
            /\ UNCHANGED panicked
    /\ UNCHANGED <<current, blocked_in, sem_vars>>

\* (mutant) unlock() without the assertion
MutexBlocking_unlock_unchecked ==
    /\ Runnable
    /\ IF wait_queue # <<>>
       THEN LET p == pop_front(wait_queue)
                w == wakeup_task(task_status, ready_queue, p.task)
            IN  /\ wait_queue' = p.rest
                /\ task_status' = w.status
                /\ ready_queue' = w.queue
                /\ UNCHANGED <<locked, allocate_tid>>
       ELSE /\ locked' = FALSE
            /\ UNCHANGED <<wait_queue, allocate_tid, task_status, ready_queue>>
    /\ UNCHANGED <<panicked, current, blocked_in, sem_vars>>

\* (mutant) unlock() that wakes the head of the queue and leaves it queued
MutexBlocking_unlock_peeks ==
    /\ Runnable
    /\ IF ~locked
       THEN /\ panicked' = TRUE
            /\ UNCHANGED <<mutex_vars, task_status, ready_queue>>
       ELSE /\ IF wait_queue # <<>> /\ task_status[Head(wait_queue)] = "Blocked"
               THEN LET w == wakeup_task(task_status, ready_queue, Head(wait_queue))
                    IN  /\ task_status' = w.status
                        /\ ready_queue' = w.queue
                        /\ UNCHANGED <<wait_queue, locked, allocate_tid>>
               ELSE /\ locked' = FALSE
                    /\ UNCHANGED <<wait_queue, allocate_tid, task_status, ready_queue>>
            /\ UNCHANGED panicked
    /\ UNCHANGED <<current, blocked_in, sem_vars>>

\* (mutant) unlock() that wakes the task that queued last
MutexBlocking_unlock_lifo ==
    /\ Runnable
    /\ IF ~locked
       THEN /\ panicked' = TRUE
            /\ UNCHANGED <<mutex_vars, task_status, ready_queue>>
       ELSE /\ IF wait_queue # <<>>
               THEN LET p == pop_back(wait_queue)
                        w == wakeup_task(task_status, ready_queue, p.task)
                    IN  /\ wait_queue' = p.rest
                        /\ task_status' = w.status
                        /\ ready_queue' = w.queue
                        /\ UNCHANGED <<locked, allocate_tid>>
               ELSE /\ locked' = FALSE
                    /\ UNCHANGED <<wait_queue, allocate_tid, task_status, ready_queue>>
            /\ UNCHANGED panicked
    /\ UNCHANGED <<current, blocked_in, sem_vars>>

MutexBlocking_unlock ==
    /\ Runnable
    /\ IF ~locked
       THEN \* assert!(mutex_inner.locked) fails
            /\ panicked' = TRUE
            /\ UNCHANGED <<mutex_vars, task_status, ready_queue>>
       ELSE /\ IF wait_queue # <<>>
               THEN LET p == pop_front(wait_queue)
                        w == wakeup_task(task_status, ready_queue, p.task)
                    IN  /\ wait_queue' = p.rest
                        /\ task_status' = w.status
                        /\ ready_queue' = w.queue
                        /\ UNCHANGED <<locked, allocate_tid>>
               ELSE /\ locked' = FALSE
                    /\ UNCHANGED <<wait_queue, allocate_tid, task_status, ready_queue>>
            /\ UNCHANGED panicked
    /\ UNCHANGED <<current, blocked_in, sem_vars>>

\* Option<Vec<usize>>: None is the empty sequence
MutexBlocking_get_allocation ==
    IF locked THEN <<allocate_tid>> ELSE <<>>

\* ------------------------------------------------------------ MutexSpin
\* one turn of the loop of lock(): a caller that finds the mutex locked yields
\* and tries again when it runs next; the others set locked and return
MutexSpin_lock ==
    /\ Runnable
    /\ IF spin_locked
       THEN /\ spinning' = spinning \cup {current}
            /\ suspend_current_and_run_next
            /\ UNCHANGED spin_locked
       ELSE /\ spin_locked' = TRUE
            /\ spinning' = spinning \ {current}
            /\ UNCHANGED <<task_status, ready_queue, current, blocked_in>>
    /\ UNCHANGED <<spin_allocate_tid, panicked>>

\* unlock(): the second exclusive_access() of self.locked is made while the
\* first borrow is alive, which the exclusive-access cell answers with a panic
MutexSpin_unlock ==
    /\ Runnable
    /\ current \notin spinning
    /\ panicked' = TRUE
    /\ UNCHANGED <<spin_locked, spin_allocate_tid, spinning, task_status, ready_queue,
                   current, blocked_in>>

\* Option<Vec<usize>>: None is the empty sequence
MutexSpin_get_allocation ==
    IF spin_locked = FALSE THEN <<>> ELSE <<spin_allocate_tid>>

\* a task that is not inside lock() asks for the allocation
sys_get_allocation ==
    /\ Runnable
    /\ current \notin spinning
    /\ UNCHANGED <<spin_locked, spin_allocate_tid, spinning, sched_vars>>

\* ------------------------------------------------------------ Semaphore
Semaphore_new(n) ==
    /\ res_count = n
    /\ count = as_isize(n)
    /\ sem_allocate_tid = <<>>
    /\ sem_wait_queue = <<>>

\* (mutant) down() that blocks as soon as the count reaches zero
Semaphore_down_blocks_at_zero ==
    /\ Runnable
    /\ Len(sem_allocate_tid) < MaxAlloc
    /\ count' = count - 1
    /\ IF count' <= 0
       THEN /\ sem_wait_queue' = Append(sem_wait_queue, current)
            /\ block_current_and_run_next([blocked_in EXCEPT ![current] = "sem"])
            /\ UNCHANGED sem_allocate_tid
       ELSE /\ sem_allocate_tid' = Append(sem_allocate_tid, current)
            /\ UNCHANGED <<sem_wait_queue, task_status, ready_queue, current, blocked_in>>
    /\ UNCHANGED <<panicked, res_count, mutex_vars>>

Semaphore_down ==
    /\ Runnable
    /\ Len(sem_allocate_tid) < MaxAlloc
    /\ count' = count - 1
    /\ IF count' < 0
       THEN /\ sem_wait_queue' = Append(sem_wait_queue, current)
            /\ block_current_and_run_next([blocked_in EXCEPT ![current] = "sem"])
            /\ UNCHANGED sem_allocate_tid
       ELSE /\ sem_allocate_tid' = Append(sem_allocate_tid, current)
            /\ UNCHANGED <<sem_wait_queue, task_status, ready_queue, current, blocked_in>>
    /\ UNCHANGED <<panicked, res_count, mutex_vars>>

\* (mutant) up() that hands the unit to the waiter without counting it
Semaphore_up_uncounted_handoff ==
    /\ Runnable
    /\ count < MaxCount
    /\ LET tid == current
           removed == remove_first(sem_allocate_tid, tid)
       IN  IF count + 1 <= 0 /\ sem_wait_queue # <<>>
           THEN LET p == pop_front(sem_wait_queue)
                    w == wakeup_task(task_status, ready_queue, p.task)
                IN  /\ count' = count
                    /\ sem_wait_queue' = p.rest
                    /\ sem_allocate_tid' = Append(removed, tid)
                    /\ task_status' = w.status
                    /\ ready_queue' = w.queue
           ELSE /\ count' = count + 1
                /\ sem_allocate_tid' = removed
                /\ UNCHANGED <<sem_wait_queue, task_status, ready_queue>>
    /\ UNCHANGED <<panicked, current, blocked_in, res_count, mutex_vars>>

Semaphore_up ==
    /\ Runnable
    /\ count < MaxCount
    /\ count' = count + 1
    /\ LET tid == current
           removed == remove_first(sem_allocate_tid, tid)
       IN  IF count' <= 0 /\ sem_wait_queue # <<>>
           THEN LET p == pop_front(sem_wait_queue)
                    w == wakeup_task(task_status, ready_queue, p.task)
                IN  /\ sem_wait_queue' = p.rest
                    \* the id pushed is read from current_task, the caller of up
                    /\ sem_allocate_tid' = Append(removed, tid)
                    /\ task_status' = w.status
                    /\ ready_queue' = w.queue
           ELSE /\ sem_allocate_tid' = removed
                /\ UNCHANGED <<sem_wait_queue, task_status, ready_queue>>
    /\ UNCHANGED <<panicked, current, blocked_in, res_count, mutex_vars>>

\* Option<Vec<usize>>: None is the empty sequence
Semaphore_get_allocation == sem_allocate_tid

\* ------------------------------------------------------------ sys_yield
sys_yield ==
    /\ Runnable
    /\ suspend_current_and_run_next
    /\ UNCHANGED <<panicked, mutex_vars, sem_vars>>


\* ------------------------------------------------------------ exclusive-access cells
\* the cells: the two of a MutexSpin, the inner of the MutexBlocking, of the
\* Semaphore, and of each task
spin_locked_cell == <<"MutexSpin.locked", 0>>
spin_allocate_tid_cell == <<"MutexSpin.allocate_tid", 0>>
mutex_inner_cell == <<"MutexBlocking.inner", 0>>
sem_inner_cell == <<"Semaphore.inner", 0>>
task_inner_cell(t) == <<"TaskControlBlock.inner", t>>

\* exclusive_access() and the end of the borrow, as events of a call
Borrow(cell) == <<"borrow", cell>>
Drop(cell) == <<"drop", cell>>

\* the events of a call, in order, over the cells that suspended tasks hold
\* (others) and those of the caller (mine): a cell that is borrowed while it
\* is borrowed panics
RECURSIVE exclusive_access(_, _, _)
exclusive_access(others, mine, events) ==
    IF events = <<>>
    THEN [mine |-> mine, panic |-> FALSE]
    ELSE LET e == Head(events)
         IN  IF e[1] = "borrow"
             THEN IF e[2] \in (others \cup mine)
                  THEN [mine |-> mine, panic |-> TRUE]
                  ELSE exclusive_access(others, mine \cup {e[2]}, Tail(events))
             ELSE exclusive_access(others, mine \ {e[2]}, Tail(events))

\* wakeup_task(t): the status of t is set under the borrow of its inner
wakeup_task_borrows(t) == <<Borrow(task_inner_cell(t)), Drop(task_inner_cell(t))>>

\* the borrows of each call up to its return or to the point where it
\* suspends the caller
MutexSpin_lock_borrows ==
    IF spin_locked
    THEN <<Borrow(spin_locked_cell), Drop(spin_locked_cell)>>
    ELSE <<Borrow(spin_locked_cell)>>

MutexSpin_unlock_borrows ==
    <<Borrow(spin_locked_cell), Borrow(spin_locked_cell)>>

MutexSpin_get_allocation_borrows ==
    IF spin_locked = FALSE
    THEN <<Borrow(spin_locked_cell)>>
    ELSE <<Borrow(spin_locked_cell), Borrow(spin_allocate_tid_cell),
           Drop(spin_allocate_tid_cell)>>

MutexBlocking_lock_borrows ==
    IF locked
    THEN <<Borrow(mutex_inner_cell), Drop(mutex_inner_cell)>>
    ELSE <<Borrow(mutex_inner_cell), Borrow(task_inner_cell(current)),
           Drop(task_inner_cell(current))>>

MutexBlocking_unlock_borrows ==
    IF locked /\ wait_queue # <<>>
    THEN <<Borrow(mutex_inner_cell)>> \o wakeup_task_borrows(Head(wait_queue))
    ELSE <<Borrow(mutex_inner_cell)>>

MutexBlocking_get_allocation_borrows == <<Borrow(mutex_inner_cell)>>

RECURSIVE get_need_borrows(_)
get_need_borrows(queue) ==
    IF queue = <<>> THEN <<>>
    ELSE <<Borrow(task_inner_cell(Head(queue))), Drop(task_inner_cell(Head(queue)))>>
             \o get_need_borrows(Tail(queue))

MutexBlocking_get_need_borrows ==
    IF locked
    THEN <<Borrow(mutex_inner_cell)>> \o get_need_borrows(wait_queue)
    ELSE <<Borrow(mutex_inner_cell)>>

Semaphore_down_borrows ==
    IF count - 1 < 0
    THEN <<Borrow(sem_inner_cell), Drop(sem_inner_cell)>>
    ELSE <<Borrow(sem_inner_cell), Borrow(task_inner_cell(current)),
           Drop(task_inner_cell(current))>>

Semaphore_up_borrows ==
    <<Borrow(sem_inner_cell), Borrow(task_inner_cell(current)),
      Drop(task_inner_cell(current))>>
        \o IF count + 1 <= 0 /\ sem_wait_queue # <<>>
           THEN <<Borrow(task_inner_cell(current))>>
                    \o wakeup_task_borrows(Head(sem_wait_queue))
                    \o <<Drop(task_inner_cell(current))>>
           ELSE <<>>

Semaphore_get_allocation_borrows == <<Borrow(sem_inner_cell)>>

Semaphore_get_need_borrows == <<Borrow(sem_inner_cell)>> \o get_need_borrows(sem_wait_queue)

\* a call with these borrows is made by the current task: the borrows it has
\* not dropped stay with it if the call suspends it, and end when it returns
borrow_cells(events) ==
    LET others == UNION {borrows[t] : t \in Tasks \ {current}}
        r == exclusive_access(others, {}, events)
        suspended == current' # current \/ task_status'[current] # "Running"
    IN  /\ double_borrow' = (double_borrow \/ r.panic)
        /\ borrows' = [borrows EXCEPT ![current] = IF suspended THEN r.mine ELSE {}]

\* get_allocation() or get_need() of one of the primitives: nothing changes
\* but the cells
sys_get_introspection(events) ==
    /\ Runnable
    /\ current \notin spinning
    /\ UNCHANGED <<sched_vars, mutex_vars, sem_vars, spin_locked, spin_allocate_tid, spinning>>
    /\ borrow_cells(events)

\* ------------------------------------------------------------ address space
PAGE_SIZE == 4096
Perms == {"R", "W", "X", "U"}
VPNs == 0 .. (2 * NPages - 1)

\* VirtAddr::floor, VirtAddr::ceil
floor(va) == va \div PAGE_SIZE
ceil(va) == (va + PAGE_SIZE - 1) \div PAGE_SIZE

\* MemorySet::check_vpn_range: some page of the half-open range is mapped
check_vpn_range(pt, start_vpn, end_vpn) ==
    \E v \in VPNs : start_vpn <= v /\ v < end_vpn /\ pt[v] # {}

\* MemorySet::insert_framed_area: a new area over [floor(start), ceil(end)),
\* one frame per page; nothing is inserted when a page is already mapped
insert_framed_area(ar, pt, start_va, end_va, perm) ==
    LET s == floor(start_va)
        e == ceil(end_va)
    IN  IF check_vpn_range(pt, s, e)
        THEN [areas |-> ar, page_table |-> pt]
        ELSE [areas |-> ar \cup {[start |-> s, end |-> e, perm |-> perm]},
              page_table |-> [v \in VPNs |-> IF s <= v /\ v < e THEN perm ELSE pt[v]]]

\* MemorySet::find_exact_match: the areas whose bounds equal the requested range
find_exact_match(ar, start_va, end_va) ==
    {a \in ar : a.start * PAGE_SIZE = start_va /\ a.end * PAGE_SIZE = end_va}

\* MemorySet::remove_area: the matched area is dropped and its pages unmapped
remove_area(ar, pt, start_va, end_va) ==
    LET hit == find_exact_match(ar, start_va, end_va)
    IN  [areas |-> ar \ hit,
         page_table |-> [v \in VPNs |->
                            IF \E a \in hit : a.start <= v /\ v < a.end
                            THEN {} ELSE pt[v]]]

\* `_port & !0x7 != 0 || _port & 0x7 == 0` is the rejection test of sys_mmap
port_valid(port) == ~((port - (port % 8)) # 0 \/ (port % 8) = 0)

\* (mutant) the arms for 0b101 and 0b110 exchanged
port_permission_swapped(port) ==
    CASE (port % 8) = 1 -> {"R"}
      [] (port % 8) = 2 -> {"W"}
      [] (port % 8) = 3 -> {"R", "W"}
      [] (port % 8) = 4 -> {"X"}
      [] (port % 8) = 5 -> {"W", "X"}
      [] (port % 8) = 6 -> {"R", "X"}
      [] (port % 8) = 7 -> {"R", "W", "X"}

\* the match on `_port & 0x7`
port_permission(port) ==
    CASE (port % 8) = 1 -> {"R"}
      [] (port % 8) = 2 -> {"W"}
      [] (port % 8) = 3 -> {"R", "W"}
      [] (port % 8) = 4 -> {"X"}
      [] (port % 8) = 5 -> {"R", "X"}
      [] (port % 8) = 6 -> {"W", "X"}
      [] (port % 8) = 7 -> {"R", "W", "X"}

\* the end of the page range handed to check_vpn_range
mmap_check_end(end_va) == floor(end_va)

\* sys_mmap as a function of the address space and the arguments
mmap(ar, pt, start, len, port) ==
    IF start % PAGE_SIZE # 0
    THEN [ret |-> 0 - 1, areas |-> ar, page_table |-> pt]
    ELSE IF ~port_valid(port)
    THEN [ret |-> 0 - 1, areas |-> ar, page_table |-> pt]
    ELSE IF check_vpn_range(pt, floor(start), mmap_check_end(start + len))
    THEN [ret |-> 0 - 1, areas |-> ar, page_table |-> pt]
    ELSE LET ms == insert_framed_area(ar, pt, start, start + len,
                                      port_permission(port) \cup {"U"})
         IN  [ret |-> 0, areas |-> ms.areas, page_table |-> ms.page_table]

\* (mutant) munmap that reports success and leaves the area in place
munmap_keeps_area(ar, pt, start, len) ==
    IF len = 0 \/ start % PAGE_SIZE # 0
    THEN [ret |-> 0 - 1, areas |-> ar, page_table |-> pt]
    ELSE IF find_exact_match(ar, start, start + len) # {}
    THEN [ret |-> 0, areas |-> ar, page_table |-> pt]
    ELSE [ret |-> 0 - 1, areas |-> ar, page_table |-> pt]

\* (mutant) munmap that unmaps every area lying inside the requested range
munmap_partial(ar, pt, start, len) ==
    LET hit == {a \in ar : a.start < a.end /\ start <= a.start * PAGE_SIZE
                                           /\ a.end * PAGE_SIZE <= start + len}
    IN  IF len = 0 \/ start % PAGE_SIZE # 0
        THEN [ret |-> 0 - 1, areas |-> ar, page_table |-> pt]
        ELSE IF hit # {}
        THEN [ret |-> 0, areas |-> ar \ hit,
              page_table |-> [v \in VPNs |->
                                IF \E a \in hit : a.start <= v /\ v < a.end
                                THEN {} ELSE pt[v]]]
        ELSE [ret |-> 0 - 1, areas |-> ar, page_table |-> pt]

\* (mutant) munmap that rounds the range to whole pages before the lookup
munmap_rounds_range(ar, pt, start, len) ==
    LET s == floor(start) * PAGE_SIZE
        e == ceil(start + len) * PAGE_SIZE
    IN  IF len = 0 \/ start % PAGE_SIZE # 0
        THEN [ret |-> 0 - 1, areas |-> ar, page_table |-> pt]
        ELSE IF find_exact_match(ar, s, e) # {}
        THEN LET ms == remove_area(ar, pt, s, e)
             IN  [ret |-> 0, areas |-> ms.areas, page_table |-> ms.page_table]
        ELSE [ret |-> 0 - 1, areas |-> ar, page_table |-> pt]

\* sys_munmap as a function of the address space and the arguments
munmap(ar, pt, start, len) ==
    IF len = 0 \/ start % PAGE_SIZE # 0
    THEN [ret |-> 0 - 1, areas |-> ar, page_table |-> pt]
    ELSE IF find_exact_match(ar, start, start + len) # {}
    THEN LET ms == remove_area(ar, pt, start, start + len)
         IN  [ret |-> 0, areas |-> ms.areas, page_table |-> ms.page_table]
    ELSE [ret |-> 0 - 1, areas |-> ar, page_table |-> pt]

sys_mmap(start, len, port) ==
    LET r == mmap(areas, page_table, start, len, port)
    IN  /\ Cardinality(r.areas) <= MaxAreas
        /\ areas' = r.areas
        /\ page_table' = r.page_table
        /\ mm_ret' = r.ret

sys_munmap(start, len) ==
    LET r == munmap(areas, page_table, start, len)
    IN  /\ areas' = r.areas
        /\ page_table' = r.page_table
        /\ mm_ret' = r.ret

\* the arguments tried
Starts == {p * PAGE_SIZE : p \in 0 .. (NPages - 1)} \cup {1}
Lens == {k * PAGE_SIZE + o : k \in 0 .. (NPages - 1), o \in {0, 1}}
Ports == {0, 3, 5, 6, 8, 11}

\* ------------------------------------------------------------ pointer bridge
Frames == 0 .. (NFrames - 1)
NoFrame == 0 - 1

\* the frames insert_framed_area takes from the frame allocator for the pages
\* this step maps; the frames of the pages it unmaps go back
alloc_frames ==
    LET new == {v \in VPNs : page_table[v] = {} /\ page_table'[v] # {}}
        used == {frame_of[v] : v \in {u \in VPNs : page_table'[u] # {}} \ new}
    IN  \E fs \in [new -> Frames \ used] :
            /\ \A u, v \in new : (u # v) => (fs[u] # fs[v])
            /\ frame_of' = [v \in VPNs |->
                              IF v \in new THEN fs[v]
                              ELSE IF page_table'[v] = {} THEN NoFrame
                              ELSE frame_of[v]]

\* the page of a user address can be written by the kernel on the user's behalf
writable(va) ==
    /\ floor(va) \in VPNs
    /\ {"W", "U"} \subseteq page_table[floor(va)]

\* the physical address a user address translates to
phys_addr(va) == frame_of[floor(va)] * PAGE_SIZE + (va % PAGE_SIZE)

\* byte i (0 the lowest) of the two's complement representation of v; the
\* values here are below 2^31 in size, so the bytes from 4 on repeat the sign
le_byte(v, i) ==
    IF i >= 4 THEN (IF v >= 0 THEN 0 ELSE 255)
    ELSE IF v >= 0 THEN (v \div (256 ^ i)) % 256
    ELSE 255 - ((((0 - v) - 1) \div (256 ^ i)) % 256)

\* the bytes of a value n bytes wide, lowest first
to_le_bytes(v, n) == [i \in 1 .. n |-> le_byte(v, i - 1)]

\* a store of the bytes bs at the consecutive physical addresses from pa on
store(pa, bs) == {<<pa + (i - 1), bs[i]>> : i \in 1 .. Len(bs)}

NoIo == [op |-> "none", ptr |-> 0, pid |-> 0, ret |-> 0, writes |-> {},
         bufs |-> <<>>, record |-> <<>>]

\* ------------------------------------------------------------ processes
Pids == 1 .. (MaxChildren + 1)
ExitCodes == {3, 0 - 1}

\* `pid as usize`: the two's complement reinterpretation, ISIZE_BITS wide
as_usize(n) == IF n < 0 THEN n + 2 ^ ISIZE_BITS ELSE n

\* sys_fork: the new task joins the children of the caller
sys_fork ==
    /\ ~panicked
    /\ Len(children) < MaxChildren
    /\ \E pid \in Pids :
          /\ \A i \in 1 .. Len(children) : children[i].pid # pid
          /\ children' = Append(children, [pid |-> pid, zombie |-> FALSE, exit_code |-> 0])

\* exit_current_and_run_next in a child: it becomes a zombie with its exit code
child_exit ==
    /\ ~panicked
    /\ \E i \in 1 .. Len(children), code \in ExitCodes :
          /\ ~children[i].zombie
          /\ children' = [children EXCEPT ![i] = [@ EXCEPT !.zombie = TRUE,
                                                           !.exit_code = code]]

\* the closure of sys_waitpid: the child is the one asked for
waitpid_matches(pid, p) == pid = 0 - 1 \/ as_usize(pid) = p.pid

\* (mutant) waitpid that reaps the first zombie child whatever pid asks for
waitpid_any_zombie(ch, pid, ptr_ok) ==
    IF ~\E i \in 1 .. Len(ch) : waitpid_matches(pid, ch[i])
    THEN [ret |-> 0 - 1, children |-> ch, write |-> <<>>, panic |-> FALSE]
    ELSE LET found == {i \in 1 .. Len(ch) : ch[i].zombie}
         IN  IF found = {}
             THEN [ret |-> 0 - 2, children |-> ch, write |-> <<>>, panic |-> FALSE]
             ELSE LET idx == CHOOSE i \in found : \A j \in found : i <= j
                  IN  IF ptr_ok
                      THEN [ret |-> ch[idx].pid, children |-> RemoveAt(ch, idx),
                            write |-> to_le_bytes(ch[idx].exit_code, 4), panic |-> FALSE]
                      ELSE [ret |-> 0, children |-> RemoveAt(ch, idx),
                            write |-> <<>>, panic |-> TRUE]

\* (mutant) waitpid that reaps the zombie child latest in the list
waitpid_latest_zombie(ch, pid, ptr_ok) ==
    IF ~\E i \in 1 .. Len(ch) : waitpid_matches(pid, ch[i])
    THEN [ret |-> 0 - 1, children |-> ch, write |-> <<>>, panic |-> FALSE]
    ELSE LET found == {i \in 1 .. Len(ch) : ch[i].zombie /\ waitpid_matches(pid, ch[i])}
         IN  IF found = {}
             THEN [ret |-> 0 - 2, children |-> ch, write |-> <<>>, panic |-> FALSE]
             ELSE LET idx == CHOOSE i \in found : \A j \in found : i >= j
                  IN  IF ptr_ok
                      THEN [ret |-> ch[idx].pid, children |-> RemoveAt(ch, idx),
                            write |-> to_le_bytes(ch[idx].exit_code, 4), panic |-> FALSE]
                      ELSE [ret |-> 0, children |-> RemoveAt(ch, idx),
                            write |-> <<>>, panic |-> TRUE]

\* sys_waitpid as a function of the children and the arguments; ptr_ok says
\* that translated_refmut finds the page of exit_code_ptr
waitpid(ch, pid, ptr_ok) ==
    IF ~\E i \in 1 .. Len(ch) : waitpid_matches(pid, ch[i])
    THEN [ret |-> 0 - 1, children |-> ch, write |-> <<>>, panic |-> FALSE]
    ELSE LET found == {i \in 1 .. Len(ch) : ch[i].zombie /\ waitpid_matches(pid, ch[i])}
         IN  IF found = {}
             THEN [ret |-> 0 - 2, children |-> ch, write |-> <<>>, panic |-> FALSE]
             ELSE LET idx == CHOOSE i \in found : \A j \in found : i <= j
                  IN  \* the child leaves the list before the pointer is translated;
                      \* assert_eq!(Arc::strong_count(&child), 1) holds of a zombie,
                      \* which neither the processor nor the ready pool refers to
                      IF ptr_ok
                      THEN [ret |-> ch[idx].pid, children |-> RemoveAt(ch, idx),
                            write |-> to_le_bytes(ch[idx].exit_code, 4), panic |-> FALSE]
                      ELSE [ret |-> 0, children |-> RemoveAt(ch, idx),
                            write |-> <<>>, panic |-> TRUE]

sys_waitpid(pid, exit_code_ptr) ==
    LET r == waitpid(children, pid, writable(exit_code_ptr))
    IN  /\ ~panicked
        /\ children' = r.children
        /\ panicked' = r.panic
        /\ io' = [op |-> "waitpid", ptr |-> exit_code_ptr, pid |-> pid, ret |-> r.ret,
                  writes |-> IF r.write = <<>> THEN {}
                             ELSE store(phys_addr(exit_code_ptr), r.write),
                  bufs |-> <<>>, record |-> r.write]

\* the arguments tried
WaitPids == {0 - 1, 0 - 2} \cup Pids
WaitPtrs == {0, PAGE_SIZE + 8}

\* ------------------------------------------------------------ records written for the user
\* translated_byte_buffer: the kernel-visible ranges of the user bytes
\* ptr .. ptr + len - 1 in page order, each inside one frame; no range at all
\* when a page of them cannot be written
translated_byte_buffer(ptr, len) ==
    LET first == floor(ptr)
        last == floor(ptr + len - 1)
    IN  IF \E v \in first .. last : ~writable(v * PAGE_SIZE)
        THEN <<>>
        ELSE [k \in 1 .. (last - first + 1) |->
                LET v == first + k - 1
                    lo == IF ptr > v * PAGE_SIZE THEN ptr ELSE v * PAGE_SIZE
                    hi == IF ptr + len < (v + 1) * PAGE_SIZE THEN ptr + len
                          ELSE (v + 1) * PAGE_SIZE
                IN  [pa |-> phys_addr(lo), va |-> lo, len |-> hi - lo]]

\* get_time_ms and get_time_us of a clock that stands at us microseconds
get_time_us(us) == us
get_time_ms(us) == us \div 1000

\* the bytes of a TimeVal (repr(C): sec, then usec, a usize each)
TimeVal_bytes(sec, usec) == to_le_bytes(sec, 8) \o to_le_bytes(usec, 8)

\* sys_get_time as a function of the ranges and the clock: with one range and
\* with two, the record is stored through the pointer to the first range
get_time(buffers, us) ==
    LET sec == get_time_ms(us) \div 1000
        usec == get_time_us(us)
    IN  IF Len(buffers) = 1
        THEN [ret |-> 0, writes |-> store(buffers[1].pa, TimeVal_bytes(sec, usec))]
        ELSE IF Len(buffers) = 2
        THEN [ret |-> 0, writes |-> store(buffers[1].pa, TimeVal_bytes(sec, usec))]
        ELSE [ret |-> 0 - 1, writes |-> {}]

sys_get_time(ts, us) ==
    LET buffers == translated_byte_buffer(ts, 16)
        r == get_time(buffers, us)
    IN  /\ ~panicked
        /\ io' = [op |-> "get_time", ptr |-> ts, pid |-> 0, ret |-> r.ret,
                  writes |-> r.writes, bufs |-> buffers,
                  record |-> TimeVal_bytes(get_time_ms(us) \div 1000, get_time_us(us))]

\* the length of syscall_times
MAX_SYSCALL_NUM == 2

\* TaskStatus::Running as a byte
TaskStatus_Running == 2

\* the layout of TaskInfo: status, syscall_times (a u32 each), time (a usize,
\* aligned to 8)
TaskInfo_times_offset == 4
TaskInfo_time_offset == ((4 + 4 * MAX_SYSCALL_NUM + 7) \div 8) * 8
TaskInfo_size == TaskInfo_time_offset + 8

syscall_times_bytes(times) ==
    [i \in 1 .. (4 * MAX_SYSCALL_NUM) |-> le_byte(times[((i - 1) \div 4) + 1], (i - 1) % 4)]

\* the fields of a TaskInfo at their places: <<offset, byte>>
TaskInfo_fields(status, times, time) ==
    store(0, <<status>>)
        \cup store(TaskInfo_times_offset, syscall_times_bytes(times))
        \cup store(TaskInfo_time_offset, to_le_bytes(time, 8))

\* the bytes of a TaskInfo value; the bytes between the fields are whatever
\* the stack held (pad)
TaskInfo_bytes(status, times, time, pad) ==
    LET fields == TaskInfo_fields(status, times, time)
    IN  [i \in 1 .. TaskInfo_size |->
            IF \E f \in fields : f[1] = i - 1
            THEN (CHOOSE f \in fields : f[1] = i - 1)[2]
            ELSE pad]

\* (mutant) sys_task_info that stores the whole snapshot through the first range
task_info_through_first(ti, buffers, status, times, time, pad) ==
    IF ti = 0 THEN [ret |-> 0 - 1, writes |-> {}]
    ELSE IF Len(buffers) \in {1, 2}
    THEN [ret |-> 0,
          writes |-> {<<buffers[1].pa + f[1], f[2]>> :
                         f \in TaskInfo_fields(status, times, time)}]
    ELSE [ret |-> 0 - 1, writes |-> {}]

\* sys_task_info as a function of the pointer, the ranges and the snapshot
task_info(ti, buffers, status, times, time, pad) ==
    IF ti = 0 THEN [ret |-> 0 - 1, writes |-> {}]
    ELSE IF Len(buffers) = 1
    THEN [ret |-> 0,
          writes |-> {<<buffers[1].pa + f[1], f[2]>> :
                         f \in TaskInfo_fields(status, times, time)}]
    ELSE IF Len(buffers) = 2
    THEN LET temp_bytes == TaskInfo_bytes(status, times, time, pad)
             first_part == SubSeq(temp_bytes, 1, buffers[1].len)
             second_part == SubSeq(temp_bytes, buffers[1].len + 1, Len(temp_bytes))
         IN  [ret |-> 0,
              writes |-> store(buffers[1].pa, first_part)
                            \cup store(buffers[2].pa, second_part)]
    ELSE [ret |-> 0 - 1, writes |-> {}]

sys_task_info(ti, times, time, pad) ==
    LET buffers == translated_byte_buffer(ti, TaskInfo_size)
        r == task_info(ti, buffers, TaskStatus_Running, times, time, pad)
    IN  /\ ~panicked
        /\ io' = [op |-> "task_info", ptr |-> ti, pid |-> 0, ret |-> r.ret,
                  writes |-> r.writes, bufs |-> buffers,
                  record |-> TaskInfo_bytes(TaskStatus_Running, times, time, pad)]

\* the arguments and the snapshots tried
BridgePtrs == {0, PAGE_SIZE - 8, PAGE_SIZE + 8}
ClockUs == {1500000, 2000001}
SyscallTimes == {[i \in 1 .. MAX_SYSCALL_NUM |-> 0], [i \in 1 .. MAX_SYSCALL_NUM |-> 255 + i]}
Runtimes == {7, 1300}
PadBytes == {0, 170}

\* ------------------------------------------------------------ links
\* the names a path argument can be
MaxNames == 4
Paths == 1 .. MaxNames

NoFs == [op |-> "none", path |-> 0, ret |-> 0, linked |-> 0, unlinked |-> 0,
         clears |-> FALSE]

\* open_file(path, RDONLY): the inode, if the root directory has the name
open_file(nm, path) == path \in nm

\* ROOT_INODE.link(newpath, inode): a new entry, unless the name is taken or
\* the directory cannot take it (disk_ok)
ROOT_INODE_link(nm, newpath, disk_ok) ==
    IF newpath \notin nm /\ disk_ok
    THEN [ok |-> TRUE, names |-> nm \cup {newpath}]
    ELSE [ok |-> FALSE, names |-> nm]

\* ROOT_INODE.unlink(path): the entry is removed, unless the directory cannot
\* be written (disk_ok)
ROOT_INODE_unlink(nm, path, disk_ok) ==
    IF path \in nm /\ disk_ok
    THEN [ok |-> TRUE, names |-> nm \ {path}]
    ELSE [ok |-> FALSE, names |-> nm]

increment_nlink(n) == n + 1
decrement_nlink(n) == n - 1

\* (mutant) sys_linkat that keeps the count it added when the link fails
linkat_no_rollback(n, nm, oldpath, newpath, disk_ok) ==
    IF ~open_file(nm, oldpath)
    THEN [ret |-> 0 - 1, nlink |-> n, names |-> nm]
    ELSE LET l == ROOT_INODE_link(nm, newpath, disk_ok)
         IN  [ret |-> IF l.ok THEN 0 ELSE 0 - 1, nlink |-> increment_nlink(n),
              names |-> l.names]

\* sys_linkat as a function of the inode and the arguments
linkat(n, nm, oldpath, newpath, disk_ok) ==
    IF ~open_file(nm, oldpath)
    THEN [ret |-> 0 - 1, nlink |-> n, names |-> nm]
    ELSE LET counted == increment_nlink(n)
             l == ROOT_INODE_link(nm, newpath, disk_ok)
         IN  IF l.ok
             THEN [ret |-> 0, nlink |-> counted, names |-> l.names]
             ELSE [ret |-> 0 - 1, nlink |-> decrement_nlink(counted), names |-> l.names]

\* sys_unlinkat as a function of the inode and the arguments
unlinkat(n, nm, path, disk_ok) ==
    IF ~open_file(nm, path)
    THEN [ret |-> 0 - 1, nlink |-> n, names |-> nm, needs_clear |-> FALSE]
    ELSE LET u == ROOT_INODE_unlink(nm, path, disk_ok)
         IN  IF u.ok
             THEN [ret |-> 0, nlink |-> decrement_nlink(n), names |-> u.names,
                   needs_clear |-> decrement_nlink(n) = 0]
             ELSE [ret |-> 0 - 1, nlink |-> n, names |-> nm, needs_clear |-> FALSE]

sys_linkat(oldpath, newpath, disk_ok) ==
    LET r == linkat(nlink, names, oldpath, newpath, disk_ok)
    IN  /\ ~panicked
        /\ fs_call.linked < MaxCalls
        /\ nlink' = r.nlink
        /\ names' = r.names
        /\ UNCHANGED cleared
        /\ fs_call' = [fs_call EXCEPT !.op = "linkat", !.path = newpath, !.ret = r.ret,
                                      !.clears = FALSE,
                            !.linked = IF r.ret = 0 THEN @ + 1 ELSE @]

sys_unlinkat(path, disk_ok) ==
    LET r == unlinkat(nlink, names, path, disk_ok)
    IN  /\ ~panicked
        /\ fs_call.unlinked < MaxCalls
        /\ nlink' = r.nlink
        /\ names' = r.names
        /\ cleared' = (cleared \/ r.needs_clear)
        /\ fs_call' = [fs_call EXCEPT !.op = "unlinkat", !.path = path, !.ret = r.ret,
                                      !.clears = r.needs_clear,
                            !.unlinked = IF r.ret = 0 THEN @ + 1 ELSE @]

\* ------------------------------------------------------------ stride scheduling
\* config::BIG_STRIDE and the priority of a new task
BIG_STRIDE == 100
DEFAULT_PRIORITY == 16

\* (mutant) set_priority with a stride that grows with the priority
set_priority_direct_stride(pr, st, pa, prio) ==
    IF prio < 2
    THEN [ret |-> 0 - 1, priority |-> pr, stride |-> st, pass |-> pa]
    ELSE [ret |-> as_usize(prio), priority |-> as_usize(prio),
          stride |-> as_usize(prio),
          pass |-> IF pa = 0 THEN as_usize(prio) ELSE pa]

\* (mutant) set_priority that restarts pass at the new stride
set_priority_resets_pass(pr, st, pa, prio) ==
    IF prio < 2
    THEN [ret |-> 0 - 1, priority |-> pr, stride |-> st, pass |-> pa]
    ELSE [ret |-> as_usize(prio), priority |-> as_usize(prio),
          stride |-> BIG_STRIDE \div as_usize(prio),
          pass |-> BIG_STRIDE \div as_usize(prio)]

\* sys_set_priority as a function of the caller's scheduling fields
set_priority(pr, st, pa, prio) ==
    IF prio < 2
    THEN [ret |-> 0 - 1, priority |-> pr, stride |-> st, pass |-> pa]
    ELSE [ret |-> as_usize(prio), priority |-> as_usize(prio),
          stride |-> BIG_STRIDE \div as_usize(prio),
          pass |-> IF pa = 0 THEN BIG_STRIDE \div as_usize(prio) ELSE pa]

sys_set_priority(prio) ==
    LET r == set_priority(priority[current], stride[current], pass[current], prio)
    IN  /\ Runnable
        /\ priority' = [priority EXCEPT ![current] = r.priority]
        /\ stride' = [stride EXCEPT ![current] = r.stride]
        /\ pass' = [pass EXCEPT ![current] = r.pass]
        /\ sp' = [op |-> "set_priority", prio |-> prio, ret |-> r.ret]

NoSp == [op |-> "none", prio |-> 0, ret |-> 0]
NoWindow == [count |-> [t \in Tasks |-> 0], from |-> {}]

\* the Ready task of minimum pass, the lowest id among equals
min_pass(pa, ready) ==
    CHOOSE t \in ready :
        \A u \in ready : pa[t] < pa[u] \/ (pa[t] = pa[u] /\ t <= u)

\* the running task yields and the stride scheduler dispatches: the stride of
\* the task that ran is added to its pass, and the Ready task of minimum pass
\* runs next
stride_dispatch ==
    /\ Runnable
    /\ pass' = [pass EXCEPT ![current] = @ + stride[current]]
    /\ LET next == min_pass(pass', Tasks)
       IN  /\ current' = next
           /\ task_status' = [t \in Tasks |-> IF t = next THEN "Running" ELSE "Ready"]
           /\ ready_queue' = [t \in Tasks |-> IF t = next THEN 0 ELSE 1]
    /\ UNCHANGED <<priority, stride>>

\* the priorities tried
Prios == {1, 2, 4, 8}

\* priorities from the whole range of the argument, an isize
WidePrios == {0 - 1, 1, 2, BIG_STRIDE, BIG_STRIDE + 1, 2 ^ (ISIZE_BITS - 1) - 1}

\* ------------------------------------------------------------ history
\* Tasks that this step blocks, and tasks it takes out of Blocked.
Blocks(t) == task_status[t] # "Blocked" /\ task_status'[t] = "Blocked"
Wakes(t) == task_status[t] = "Blocked" /\ task_status'[t] # "Blocked"

\* block_order: a task is appended when it blocks and removed when it is woken
observe_order ==
    LET kept == SelectSeq(block_order, LAMBDA t : ~Wakes(t))
    IN  block_order' = IF \E t \in Tasks : Blocks(t)
                       THEN Append(kept, CHOOSE t \in Tasks : Blocks(t))
                       ELSE kept

\* who holds the mutex: a task acquires when lock() finds the mutex free or
\* when it is woken out of lock(); it stops holding when it calls unlock()
holder_lock ==
    /\ last_call' = "lock"
    /\ IF Blocks(current)
       THEN UNCHANGED <<mheld, last_acquirer>>
       ELSE mheld' = mheld \cup {current} /\ last_acquirer' = current
    /\ UNCHANGED stray_unlock

holder_unlock ==
    /\ last_call' = "unlock"
    /\ IF panicked'
       THEN UNCHANGED <<mheld, last_acquirer, stray_unlock>>
       ELSE /\ stray_unlock' = (stray_unlock \/ current \notin mheld)
            /\ IF \E t \in Tasks : Wakes(t)
               THEN LET w == CHOOSE t \in Tasks : Wakes(t)
                    IN  /\ mheld' = (mheld \ {current}) \cup {w}
                        /\ last_acquirer' = w
               ELSE /\ mheld' = mheld \ {current}
                    /\ UNCHANGED last_acquirer

\* who holds units of the semaphore, and the number of calls made
units_down ==
    /\ n_down < MaxCalls
    /\ n_down' = n_down + 1
    /\ IF \E t \in Tasks : Blocks(t)
       THEN UNCHANGED <<sheld, n_down_nb>>
       ELSE /\ sheld' = [sheld EXCEPT ![current] = @ + 1]
            /\ n_down_nb' = n_down_nb + 1
    /\ UNCHANGED n_up

units_up ==
    /\ n_up < MaxCalls
    /\ n_up' = n_up + 1
    /\ LET released == [sheld EXCEPT ![current] = IF @ > 0 THEN @ - 1 ELSE @]
       IN  IF \E t \in Tasks : Wakes(t)
           THEN sheld' = [released EXCEPT ![CHOOSE t \in Tasks : Wakes(t)] = @ + 1]
           ELSE sheld' = released
    /\ UNCHANGED <<n_down, n_down_nb>>


\* The sequence mmap(addr, len, R|W); munmap(addr, len); mmap(addr, len, p),
\* p any of the seven permissions,
\* as it is observed: phase counts the calls seen, ok says that each returned 0
\* (and that the munmap restored the areas), before is the area set before
\* the first call, free says that no page of the range was mapped then.
NoRoundTrip ==
    [phase |-> 0, start |-> 0, len |-> 0, before |-> {}, ok |-> TRUE, free |-> TRUE]

\* some page of [start, start + len), rounded up to whole pages, is mapped
RangeMapped(start, len) ==
    \E v \in VPNs : floor(start) <= v /\ v < ceil(start + len) /\ page_table[v] # {}

\* what the arguments of the call are like
observe_mmap(start, len, port) ==
    mm_call' = [op |-> "mmap", aligned |-> (start % PAGE_SIZE = 0),
                port |-> port, overlap |-> RangeMapped(start, len)]

observe_munmap(start, len) ==
    mm_call' = [op |-> "munmap", aligned |-> (start % PAGE_SIZE = 0),
                port |-> 0, overlap |-> RangeMapped(start, len)]

\* the round trip, call by call
round_trip_mmap(start, len, port) ==
    rt' = IF rt.phase = 2 /\ start = rt.start /\ len = rt.len /\ port \in 1 .. 7
          THEN [rt EXCEPT !.phase = 3, !.ok = (rt.ok /\ mm_ret' = 0)]
          ELSE IF port = 3 /\ start % PAGE_SIZE = 0 /\ page_table[floor(start)] = {}
          THEN [phase |-> 1, start |-> start, len |-> len,
                before |-> areas, ok |-> (mm_ret' = 0),
                free |-> ~RangeMapped(start, len)]
          ELSE NoRoundTrip

round_trip_munmap(start, len) ==
    rt' = IF rt.phase = 1 /\ start = rt.start /\ len = rt.len
          THEN [rt EXCEPT !.phase = 2,
                          !.ok = (rt.ok /\ mm_ret' = 0 /\ areas' = rt.before)]
          ELSE NoRoundTrip

\* how the byte range [start, start + len) of a munmap relates to the areas:
\* "exact" some area has these bounds; "rounded" some area has them once the
\* range is rounded to whole pages; "sub" strictly inside an area; "span"
\* covering two areas or more; "super" covering one area and more; else "other"
range_relation(start, len) ==
    LET end == start + len
        inside == {a \in areas : a.start < a.end /\ start <= a.start * PAGE_SIZE
                                                 /\ a.end * PAGE_SIZE <= end}
    IN  IF \E a \in areas : a.start * PAGE_SIZE = start /\ a.end * PAGE_SIZE = end
        THEN "exact"
        ELSE IF \E a \in areas : a.start = floor(start) /\ a.end = ceil(end)
        THEN "rounded"
        ELSE IF \E a \in areas : a.start * PAGE_SIZE <= start /\ end <= a.end * PAGE_SIZE
                                 /\ len > 0
        THEN "sub"
        ELSE IF Cardinality(inside) >= 2
        THEN "span"
        ELSE IF inside # {}
        THEN "super"
        ELSE "other"

relate_mmap ==
    um' = [op |-> "mmap", aligned |-> TRUE, whole |-> TRUE, rel |-> "other"]

relate_munmap(start, len) ==
    um' = [op |-> "munmap", aligned |-> (start % PAGE_SIZE = 0),
           whole |-> (len % PAGE_SIZE = 0), rel |-> range_relation(start, len)]

\* ------------------------------------------------------------ specifications
InitBase ==
    /\ current = 0
    /\ task_status = [t \in Tasks |-> IF t = 0 THEN "Running" ELSE "Ready"]
    /\ ready_queue = [t \in Tasks |-> IF t = 0 THEN 0 ELSE 1]
    /\ blocked_in = [t \in Tasks |-> "none"]
    /\ panicked = FALSE
    /\ locked = FALSE
    /\ allocate_tid = 0
    /\ wait_queue = <<>>
    /\ last_call = "none"
    /\ mheld = {}
    /\ last_acquirer = NoTask
    /\ stray_unlock = FALSE
    /\ sheld = [t \in Tasks |-> 0]
    /\ block_order = <<>>
    /\ n_down = 0
    /\ n_down_nb = 0
    /\ n_up = 0
    /\ areas = {}
    /\ page_table = [v \in VPNs |-> {}]
    /\ mm_call = [op |-> "none", aligned |-> TRUE, port |-> 0, overlap |-> FALSE]
    /\ mm_ret = 0
    /\ rt = NoRoundTrip
    /\ um = [op |-> "none", aligned |-> TRUE, whole |-> TRUE, rel |-> "other"]
    /\ frame_of = [v \in VPNs |-> NoFrame]
    /\ children = <<>>
    /\ io = NoIo
    /\ priority = [t \in Tasks |-> DEFAULT_PRIORITY]
    /\ stride = [t \in Tasks |-> BIG_STRIDE \div DEFAULT_PRIORITY]
    /\ pass = [t \in Tasks |-> 0]
    /\ sp = NoSp
    /\ n_disp = NoWindow
    /\ n_sched = [disp |-> 0, calls |-> 0, settled |-> {}]
    /\ spin_locked = FALSE
    /\ spin_allocate_tid = 0
    /\ spinning = {}
    /\ spin_call = [op |-> "none", ret |-> <<>>, acquirer |-> NoTask]
    /\ borrows = [t \in Tasks |-> {}]
    /\ double_borrow = FALSE
    /\ nlink = 1
    /\ names = {1}
    /\ cleared = FALSE
    /\ fs_call = NoFs

Init == InitBase /\ \E n \in 0 .. MaxResCount : Semaphore_new(n)

InitMem == InitBase /\ Semaphore_new(0)

Idle(others) == UNCHANGED <<others, mem_vars, mem_obs, late_vars>>

NextMutex ==
    \/ MutexBlocking_lock /\ holder_lock /\ observe_order /\ Idle(sem_obs)
    \/ MutexBlocking_unlock /\ holder_unlock /\ observe_order /\ Idle(sem_obs)
    \/ sys_yield /\ Idle(sync_obs)

SpecMutex == Init /\ [][NextMutex]_vars

\* the blocking mutex with every call told apart: a yield is a call of its own
NextMutexCalls ==
    \/ MutexBlocking_lock /\ holder_lock /\ observe_order /\ Idle(sem_obs)
    \/ MutexBlocking_unlock /\ holder_unlock /\ observe_order /\ Idle(sem_obs)
    \/ sys_yield /\ last_call' = "yield"
          /\ Idle(<<mheld, last_acquirer, stray_unlock, sem_obs, block_order>>)

SpecMutexCalls == Init /\ [][NextMutexCalls]_vars

\* the tasks lock and unlock the spin mutex, yield, and ask who holds it
spin_rest == <<mutex_vars, sem_vars, sync_obs, mem_vars, mem_obs, frame_of, children, io,
               stride_vars, stride_obs, cell_vars, fs_vars>>

NextSpin ==
    \/ /\ MutexSpin_lock
       /\ spin_call' = [op |-> "lock", ret |-> <<>>,
                        acquirer |-> IF spin_locked THEN spin_call.acquirer ELSE current]
       /\ UNCHANGED spin_rest
    \/ /\ MutexSpin_unlock
       /\ spin_call' = [spin_call EXCEPT !.op = "unlock", !.ret = <<>>]
       /\ UNCHANGED spin_rest
    \/ /\ sys_get_allocation
       /\ spin_call' = [spin_call EXCEPT !.op = "get_allocation",
                                         !.ret = MutexSpin_get_allocation]
       /\ UNCHANGED spin_rest
    \/ /\ sys_yield
       /\ current \notin spinning
       /\ spin_call' = [spin_call EXCEPT !.op = "yield", !.ret = <<>>]
       /\ UNCHANGED <<spin_locked, spin_allocate_tid, spinning, sync_obs, mem_vars, mem_obs,
                      frame_of, children, io, stride_vars, stride_obs, cell_vars, fs_vars>>

SpecSpin == InitMem /\ [][NextSpin]_vars

\* the tasks use the three primitives and their introspection, every call
\* with its borrows
borrow_rest == <<sync_obs, mem_vars, mem_obs, frame_of, children, io, stride_vars,
                 stride_obs, spin_call, fs_vars>>

NextBorrow ==
    \/ MutexSpin_lock /\ borrow_cells(MutexSpin_lock_borrows)
          /\ UNCHANGED <<mutex_vars, sem_vars, borrow_rest>>
    \/ MutexSpin_unlock /\ borrow_cells(MutexSpin_unlock_borrows)
          /\ UNCHANGED <<mutex_vars, sem_vars, borrow_rest>>
    \/ current \notin spinning /\ MutexBlocking_lock
          /\ borrow_cells(MutexBlocking_lock_borrows)
          /\ UNCHANGED <<spin_locked, spin_allocate_tid, spinning, borrow_rest>>
    \/ current \notin spinning /\ MutexBlocking_unlock
          /\ borrow_cells(MutexBlocking_unlock_borrows)
          /\ UNCHANGED <<spin_locked, spin_allocate_tid, spinning, borrow_rest>>
    \/ current \notin spinning /\ Semaphore_down
          /\ borrow_cells(Semaphore_down_borrows)
          /\ UNCHANGED <<spin_locked, spin_allocate_tid, spinning, borrow_rest>>
    \/ current \notin spinning /\ Semaphore_up
          /\ borrow_cells(Semaphore_up_borrows)
          /\ UNCHANGED <<spin_locked, spin_allocate_tid, spinning, borrow_rest>>
    \/ \E events \in {MutexSpin_get_allocation_borrows,
                      MutexBlocking_get_allocation_borrows,
                      MutexBlocking_get_need_borrows,
                      Semaphore_get_allocation_borrows,
                      Semaphore_get_need_borrows} :
          sys_get_introspection(events) /\ UNCHANGED borrow_rest

SpecBorrow == Init /\ [][NextBorrow]_vars

\* a process links and unlinks names of one file
fs_rest == <<sched_vars, mutex_vars, sem_vars, sync_obs, mem_vars, mem_obs, frame_of,
             children, io, stride_vars, stride_obs, spin_vars, cell_vars>>

NextLink ==
    \/ \E oldpath \in Paths, newpath \in Paths, disk_ok \in BOOLEAN :
          sys_linkat(oldpath, newpath, disk_ok) /\ UNCHANGED fs_rest
    \/ \E path \in Paths, disk_ok \in BOOLEAN :
          sys_unlinkat(path, disk_ok) /\ UNCHANGED fs_rest

SpecLink == InitMem /\ [][NextLink]_vars

\* tasks that use the mutex as a lock: a task calls unlock() only while it
\* holds the mutex and does not call lock() while it holds it; the others call
\* lock() as often as they like, and any running task may yield
holder_calls_unlock(t) ==
    /\ current = t
    /\ t \in mheld
    /\ MutexBlocking_unlock /\ holder_unlock /\ Idle(<<sem_obs, block_order>>)

NextMutexLive ==
    \/ /\ current \notin mheld
       /\ MutexBlocking_lock /\ holder_lock /\ Idle(<<sem_obs, block_order>>)
    \/ \E t \in Tasks : holder_calls_unlock(t)
    \/ sys_yield /\ Idle(sync_obs)

\* the scheduler gives the processor to t
runs_next(t) == NextMutexLive /\ current # t /\ current' = t

\* every task that holds the mutex eventually calls unlock(), and the
\* scheduler eventually runs every Ready task
SpecMutexLive ==
    /\ Init
    /\ [][NextMutexLive]_vars
    /\ \A t \in Tasks : SF_vars(holder_calls_unlock(t))
    /\ \A t \in Tasks : SF_vars(runs_next(t))

NextSem ==
    \/ Semaphore_down /\ units_down /\ observe_order /\ Idle(mutex_obs)
    \/ Semaphore_up /\ units_up /\ observe_order /\ Idle(mutex_obs)
    \/ sys_yield /\ Idle(sync_obs)

SpecSem == Init /\ [][NextSem]_vars

NextSync ==
    \/ MutexBlocking_lock /\ observe_order /\ Idle(<<mutex_obs, sem_obs>>)
    \/ MutexBlocking_unlock /\ observe_order /\ Idle(<<mutex_obs, sem_obs>>)
    \/ Semaphore_down /\ observe_order /\ Idle(<<mutex_obs, sem_obs>>)
    \/ Semaphore_up /\ observe_order /\ Idle(<<mutex_obs, sem_obs>>)
    \/ sys_yield /\ Idle(sync_obs)

SpecSync == Init /\ [][NextSync]_vars

sync_all == <<sched_vars, mutex_vars, sem_vars, sync_obs>>

NextMem ==
    \/ \E start \in Starts, len \in Lens, port \in Ports :
          sys_mmap(start, len, port) /\ observe_mmap(start, len, port)
          /\ UNCHANGED <<rt, um, sync_all, late_vars>>
    \/ \E start \in Starts, len \in Lens :
          sys_munmap(start, len) /\ observe_munmap(start, len)
          /\ UNCHANGED <<rt, um, sync_all, late_vars>>

SpecMem == InitMem /\ [][NextMem]_vars

NextRoundTrip ==
    \/ \E start \in Starts, len \in Lens, port \in Ports :
          sys_mmap(start, len, port) /\ round_trip_mmap(start, len, port)
          /\ UNCHANGED <<mm_call, um, sync_all, late_vars>>
    \/ \E start \in Starts, len \in Lens :
          sys_munmap(start, len) /\ round_trip_munmap(start, len)
          /\ UNCHANGED <<mm_call, um, sync_all, late_vars>>

SpecRoundTrip == InitMem /\ [][NextRoundTrip]_vars

\* the lengths tried by sys_munmap: those of sys_mmap and the whole space
UnmapLens == Lens \cup {NPages * PAGE_SIZE}

NextUnmap ==
    \/ \E start \in Starts, len \in Lens, port \in Ports :
          sys_mmap(start, len, port) /\ relate_mmap
          /\ UNCHANGED <<mm_call, rt, sync_all, late_vars>>
    \/ \E start \in Starts, len \in UnmapLens :
          sys_munmap(start, len) /\ relate_munmap(start, len)
          /\ UNCHANGED <<mm_call, rt, sync_all, late_vars>>

SpecUnmap == InitMem /\ [][NextUnmap]_vars

\* a process maps a page (read-only or writable), forks, and waits for its children
proc_rest == <<task_status, ready_queue, current, blocked_in, mutex_vars, sem_vars,
               sync_obs, mm_call, rt, um, stride_vars, stride_obs, spin_vars, cell_vars, fs_vars>>

NextProc ==
    \/ \E port \in {1, 3} :
          sys_mmap(PAGE_SIZE, PAGE_SIZE, port) /\ alloc_frames /\ io' = NoIo
          /\ UNCHANGED <<children, panicked, proc_rest>>
    \/ sys_fork /\ io' = NoIo
          /\ UNCHANGED <<frame_of, panicked, mem_vars, mm_ret, proc_rest>>
    \/ child_exit /\ io' = NoIo
          /\ UNCHANGED <<frame_of, panicked, mem_vars, mm_ret, proc_rest>>
    \/ \E pid \in WaitPids, ptr \in WaitPtrs :
          sys_waitpid(pid, ptr) /\ UNCHANGED <<frame_of, mem_vars, mm_ret, proc_rest>>

SpecProc == InitMem /\ [][NextProc]_vars

\* a process maps the first two pages one at a time, read-only or writable,
\* and asks for the time and for its accounting snapshot
bridge_rest == <<sched_vars, mutex_vars, sem_vars, sync_obs, mm_call, rt, um, children,
                 stride_vars, stride_obs, spin_vars, cell_vars, fs_vars>>

NextBridge ==
    \/ \E start \in {0, PAGE_SIZE}, port \in {1, 3} :
          sys_mmap(start, PAGE_SIZE, port) /\ alloc_frames /\ io' = NoIo
          /\ UNCHANGED bridge_rest
    \/ \E ts \in BridgePtrs, us \in ClockUs :
          sys_get_time(ts, us) /\ UNCHANGED <<frame_of, mem_vars, mm_ret, bridge_rest>>
    \/ \E ti \in BridgePtrs, times \in SyscallTimes, time \in Runtimes, pad \in PadBytes :
          sys_task_info(ti, times, time, pad)
          /\ UNCHANGED <<frame_of, mem_vars, mm_ret, bridge_rest>>

SpecBridge == InitMem /\ [][NextBridge]_vars

\* a process with children maps pages and makes the three calls that write
\* through a user pointer, with pointers that can and that cannot be written
NextFault ==
    \/ \E start \in {0, PAGE_SIZE}, port \in {1, 3} :
          sys_mmap(start, PAGE_SIZE, port) /\ alloc_frames /\ io' = NoIo
          /\ UNCHANGED <<children, panicked, proc_rest>>
    \/ sys_fork /\ io' = NoIo
          /\ UNCHANGED <<frame_of, panicked, mem_vars, mm_ret, proc_rest>>
    \/ child_exit /\ io' = NoIo
          /\ UNCHANGED <<frame_of, panicked, mem_vars, mm_ret, proc_rest>>
    \/ \E pid \in {0 - 1} \cup Pids, ptr \in WaitPtrs :
          sys_waitpid(pid, ptr) /\ UNCHANGED <<frame_of, mem_vars, mm_ret, proc_rest>>
    \/ \E ts \in WaitPtrs :
          sys_get_time(ts, 1500000)
          /\ UNCHANGED <<frame_of, children, panicked, mem_vars, mm_ret, proc_rest>>
    \/ \E ti \in WaitPtrs :
          sys_task_info(ti, [i \in 1 .. MAX_SYSCALL_NUM |-> i], 7, 0)
          /\ UNCHANGED <<frame_of, children, panicked, mem_vars, mm_ret, proc_rest>>

SpecFault == InitMem /\ [][NextFault]_vars

\* tasks that are always ready set their priorities and take turns; a window
\* of dispatches is observed from any point on, while no priority changes
stride_rest == <<blocked_in, panicked, mutex_vars, sem_vars, sync_obs, mem_vars, mem_obs,
                 frame_of, children, io, spin_vars, cell_vars, fs_vars>>

NextStride ==
    \/ \E prio \in Prios :
          /\ sys_set_priority(prio)
          /\ n_sched.calls < MaxCalls
          /\ n_sched' = [n_sched EXCEPT !.calls = @ + 1, !.settled = {}]
          /\ n_disp' = NoWindow
          /\ UNCHANGED <<task_status, ready_queue, current, stride_rest>>
    \/ /\ stride_dispatch
       /\ n_sched.disp < MaxDispatch
       /\ n_sched' = [n_sched EXCEPT !.disp = @ + 1, !.settled = @ \cup {current'}]
       /\ n_disp' = [n_disp EXCEPT !.count[current'] = @ + 1]
       /\ sp' = NoSp
       /\ UNCHANGED stride_rest
    \/ /\ n_disp # [count |-> [t \in Tasks |-> 0], from |-> n_sched.settled]
       /\ n_disp' = [count |-> [t \in Tasks |-> 0], from |-> n_sched.settled]
       /\ sp' = NoSp
       /\ UNCHANGED <<n_sched, task_status, ready_queue, current, stride_vars, stride_rest>>

SpecStride == InitMem /\ [][NextStride]_vars

\* tasks that are always ready set priorities of any size and take turns
NextPriority ==
    \/ \E prio \in WidePrios :
          /\ sys_set_priority(prio)
          /\ n_sched.calls < MaxCalls
          /\ n_sched' = [n_sched EXCEPT !.calls = @ + 1]
          /\ UNCHANGED <<n_disp, task_status, ready_queue, current, stride_rest>>
    \/ /\ stride_dispatch
       /\ n_sched.disp < MaxCalls
       /\ n_sched' = [n_sched EXCEPT !.disp = @ + 1]
       /\ sp' = NoSp
       /\ UNCHANGED <<n_disp, stride_rest>>

SpecPriority == InitMem /\ [][NextPriority]_vars

\* ============================================================ properties

\* a task woken out of lock() that has not run again yet
Pending(w) == blocked_in[w] = "mutex" /\ task_status[w] = "Ready"

\* ---- C1 (as stated): whatever lock/unlock calls the tasks make, at most one
\* task holds the mutex (acquired it and has not called unlock since).
MutualExclusion == Cardinality(mheld) <= 1

\* ---- C1 (amended): as long as every unlock was called by a task holding the
\* mutex, at most one task holds it.
MutualExclusionOfHolders == ~stray_unlock => Cardinality(mheld) <= 1

\* the mutex was handed to a woken waiter while another task still waits
C1Witness ==
    /\ ~stray_unlock
    /\ \E t \in Tasks : mheld = {t} /\ t # allocate_tid
    /\ wait_queue # <<>>

\* ---- C2: while locked, get_allocation() is the id of the task that acquired
\* the mutex most recently (directly or by hand-off); unlocked, it is None.
HolderIntrospection ==
    MutexBlocking_get_allocation = IF locked THEN <<last_acquirer>> ELSE <<>>

\* ---- C3 (as stated): unlock() with waiters removes and wakes the head and
\* leaves locked set; a lock() called while a woken waiter has not resumed
\* enqueues and blocks its caller; locked is cleared only by an unlock() that
\* finds the queue empty.
HandoffWakesHead ==
    (MutexBlocking_unlock /\ locked /\ wait_queue # <<>>) =>
        /\ locked'
        /\ wait_queue' = Tail(wait_queue)
        /\ Wakes(Head(wait_queue))
        /\ task_status'[Head(wait_queue)] = "Ready"

NoAcquireWhilePending ==
    (MutexBlocking_lock /\ \E w \in Tasks : Pending(w)) =>
        /\ locked /\ locked'
        /\ wait_queue' = Append(wait_queue, current)
        /\ task_status'[current] = "Blocked"
        /\ mheld' = mheld

ClearedOnlyOnEmptyQueue ==
    (locked /\ ~locked') => (MutexBlocking_unlock /\ wait_queue = <<>>)

DirectHandoff ==
    [][HandoffWakesHead /\ NoAcquireWhilePending /\ ClearedOnlyOnEmptyQueue]_vars

\* ---- C3 (amended): the same, the middle part as long as every unlock was
\* called by a task holding the mutex.
DirectHandoffOfHolders ==
    [][ /\ HandoffWakesHead
        /\ ~stray_unlock => NoAcquireWhilePending
        /\ ClearedOnlyOnEmptyQueue ]_vars

\* a lock() was called while a woken waiter had not resumed; its caller waits
C3Witness ==
    /\ ~stray_unlock
    /\ \E w \in Tasks : Pending(w) /\ mheld = {w}
    /\ last_call = "lock"
    /\ wait_queue # <<>>
    /\ locked

\* ---- C4: on the mutex and on the semaphore, the task a release wakes is the
\* one that blocked first among the tasks blocked on that primitive.
FifoWakeOrder ==
    [][ \A t \in Tasks : Wakes(t) =>
            LET same == SelectSeq(block_order, LAMBDA u : blocked_in[u] = blocked_in[t])
            IN  same # <<>> /\ Head(same) = t
      ]_vars

\* a release served a queue of two: the first to block is woken, the second waits
C4Witness ==
    \E a, b \in Tasks :
        /\ a # b
        /\ blocked_in[a] = blocked_in[b]
        /\ blocked_in[a] # "none"
        /\ task_status[a] = "Ready"
        /\ task_status[b] = "Blocked"
        /\ sem_wait_queue = IF blocked_in[a] = "sem" THEN <<b>> ELSE <<>>
        /\ wait_queue = IF blocked_in[a] = "mutex" THEN <<b>> ELSE <<>>

SemCountFormulaNonBlocking == count = res_count - n_down_nb + n_up

\* ---- C6 (amended): count = initial_count - (all down calls, blocking or
\* not) + (up calls).
SemCountFormula == count = as_isize(res_count) - n_down + n_up

\* a down blocked, a down did not, and an up was made
C6Witness == n_down > n_down_nb /\ n_down_nb > 0 /\ n_up > 0

\* ---- C7: get_allocation() lists exactly the tasks holding a unit, each as
\* often as the units it holds; the id added when up() wakes a waiter is the
\* woken task's.
SemHolderSet ==
    \A t \in Tasks :
        Cardinality({i \in 1 .. Len(Semaphore_get_allocation) :
                        Semaphore_get_allocation[i] = t}) = sheld[t]

\* ---- C8: a sys_mmap whose start is page-aligned and whose range, rounded up
\* to whole pages, holds a mapped page returns -1 and changes neither the
\* areas nor the page table.
MmapOverlapRejected ==
    [][ (mm_call'.op = "mmap" /\ mm_call'.aligned /\ mm_call'.overlap)
            => (mm_ret' = 0 - 1 /\ UNCHANGED <<areas, page_table>>)
      ]_vars

\* ---- C9 (as stated): mmap(addr, len, R|W) at a page-aligned unmapped addr,
\* then munmap(addr, len), then mmap(addr, len, p): each returns 0 and the
\* munmap leaves the area set as it was before the first mmap.
MmapMunmapRoundTrip == rt.phase > 0 => rt.ok

\* ---- C9 (amended): the same, for len a positive multiple of the page size
\* and a range [addr, addr + len) no page of which is mapped.
MmapMunmapRoundTripWholePages ==
    (rt.phase > 0 /\ rt.len > 0 /\ rt.len % PAGE_SIZE = 0 /\ rt.free) => rt.ok

\* the three calls were made, next to another area that stayed in place
C9Witness ==
    /\ rt.phase = 3
    /\ rt.len > 0 /\ rt.len % PAGE_SIZE = 0 /\ rt.free
    /\ rt.before # {}
    /\ Cardinality(areas) = 2

\* ---- C10: sys_mmap returns -1 and changes nothing when start is not
\* page-aligned, when a bit above the low three of port is set, or when the
\* low three bits are all zero; a mapping it installs has R, W, X as bits 0, 1,
\* 2 of port say, and U.
\* bit k of n
bit(n, k) == (n \div (2 ^ k)) % 2

ExpectedPermission(port) ==
    {"U"} \cup (IF bit(port, 0) = 1 THEN {"R"} ELSE {})
          \cup (IF bit(port, 1) = 1 THEN {"W"} ELSE {})
          \cup (IF bit(port, 2) = 1 THEN {"X"} ELSE {})

MmapArgumentValidation ==
    [][ mm_call'.op = "mmap" =>
          LET port == mm_call'.port
          IN  /\ (~mm_call'.aligned \/ port >= 8 \/ port % 8 = 0) =>
                    (mm_ret' = 0 - 1 /\ UNCHANGED <<areas, page_table>>)
              /\ (areas' # areas) =>
                    /\ mm_ret' = 0
                    /\ \A a \in areas' \ areas : a.perm = ExpectedPermission(port)
                    /\ \A v \in VPNs :
                          page_table'[v] # page_table[v] =>
                              page_table'[v] = ExpectedPermission(port)
      ]_vars

\* a call with the high bit of port set was refused, a W|X mapping in place
C10Witness ==
    /\ mm_call.op = "mmap" /\ mm_call.aligned /\ mm_call.port = 11
    /\ mm_ret = 0 - 1
    /\ \E a \in areas :
          a.perm = {"W", "X", "U"} /\ page_table[a.start] = {"W", "X", "U"}

\* ---- C11: sys_munmap returns 0 only when an area has exactly the bounds of
\* the requested range, and then removes that area and its pages and nothing
\* else; a request for a subrange of an area, for more than an area or for
\* several areas returns -1 and changes neither the areas nor the page table.
MunmapExactMatchOnly ==
    [][ um'.op = "munmap" =>
          /\ (mm_ret' = 0) =>
                /\ um'.rel = "exact"
                /\ \E a \in areas :
                      /\ areas' = areas \ {a}
                      /\ page_table' = [v \in VPNs |->
                            IF a.start <= v /\ v < a.end THEN {} ELSE page_table[v]]
          /\ (um'.rel # "exact") =>
                (mm_ret' = 0 - 1 /\ UNCHANGED <<areas, page_table>>)
      ]_vars

\* a request covering both areas was refused and both are in place
C11Witness ==
    /\ um.op = "munmap" /\ um.aligned /\ um.whole /\ um.rel = "span"
    /\ mm_ret = 0 - 1
    /\ Cardinality({a \in areas : a.start < a.end}) = 2

\* ---- C12: sys_munmap returns -1 and unmaps nothing whenever start is not
\* page-aligned or len is not a multiple of the page size.
MunmapAlignmentPolicy ==
    [][ (um'.op = "munmap" /\ (~um'.aligned \/ ~um'.whole)) =>
            (mm_ret' = 0 - 1 /\ UNCHANGED <<areas, page_table>>)
      ]_vars

\* a range that matches an area only after rounding to whole pages was refused
C12Witness ==
    /\ um.op = "munmap" /\ um.aligned /\ ~um.whole /\ um.rel = "rounded"
    /\ mm_ret = 0 - 1
    /\ areas # {}

\* ---- C13: sys_waitpid(pid, ptr) with a slot the kernel can write returns -1
\* when no child matches pid (any child matches -1), -2 when a child matches
\* but no matching child is a zombie, and otherwise the pid of a matching
\* zombie child, whose exit code it writes to the slot.
WaitpidOutcomes ==
    [][ (io'.op = "waitpid" /\ writable(io'.ptr)) =>
          LET pid == io'.pid
              match == {i \in 1 .. Len(children) :
                          pid = 0 - 1 \/ (pid >= 0 /\ children[i].pid = pid)}
              dead == {i \in match : children[i].zombie}
          IN  /\ (match = {}) => (io'.ret = 0 - 1 /\ io'.writes = {})
              /\ (match # {} /\ dead = {}) => (io'.ret = 0 - 2 /\ io'.writes = {})
              /\ (dead # {}) =>
                    \E i \in dead :
                        /\ io'.ret = children[i].pid
                        /\ io'.writes =
                              store(phys_addr(io'.ptr),
                                    to_le_bytes(children[i].exit_code, 4))
      ]_vars

\* a child asked for by its pid was reaped, with exit code -1, while the
\* child forked before it is a zombie too and stays
C13Witness ==
    /\ io.op = "waitpid" /\ io.pid > 0 /\ io.ret = io.pid
    /\ \E pa \in 0 .. (NFrames * PAGE_SIZE) :
          io.writes = store(pa, <<255, 255, 255, 255>>)
    /\ Len(children) = 1 /\ children[1].zombie

TwicePriority(a, b) == a # b /\ priority[a] >= 2 /\ priority[b] = 2 * priority[a]

StrideFairness ==
    \A a, b \in Tasks :
        TwicePriority(a, b) => n_disp.count[b] >= 2 * (n_disp.count[a] - 1)

\* ---- C15 (amended): the same, for windows that begin after both tasks have
\* been dispatched since the last change of a priority.
StrideFairnessSettled ==
    \A a, b \in Tasks :
        (TwicePriority(a, b) /\ {a, b} \subseteq n_disp.from) =>
            n_disp.count[b] >= 2 * (n_disp.count[a] - 1)

\* in a settled window the task of priority p was dispatched twice and the
\* task of priority 2p three times
C15Witness ==
    \E a, b \in Tasks :
        /\ TwicePriority(a, b) /\ {a, b} \subseteq n_disp.from
        /\ n_disp.count[a] = 2
        /\ n_disp.count[b] = 3


\* the physical address of byte k (from 1) of a record laid over the ranges
\* bufs in order
BridgedAddr(bufs, k) ==
    IF k <= bufs[1].len THEN bufs[1].pa + (k - 1)
    ELSE bufs[2].pa + (k - 1 - bufs[1].len)

\* the record is what the ranges hold one after the other, and no byte is
\* stored outside them
WrittenAcross(bufs, record, writes) ==
    /\ \A k \in 1 .. Len(record) : <<BridgedAddr(bufs, k), record[k]>> \in writes
    /\ \A w \in writes : \E k \in 1 .. Len(record) : w[1] = BridgedAddr(bufs, k)

Straddles == Len(io.bufs) = 2 /\ (io.bufs[1].va + io.bufs[1].len) % PAGE_SIZE = 0

\* C16: sys_get_time of a record that straddles one page boundary stores it so
\* that the two ranges of the pointer bridge, one after the other, hold the
\* record's bytes, and stores no byte outside them; a record inside one page
\* is stored through the single range
CrossPageGetTime ==
    (io.op = "get_time" /\ Len(io.bufs) \in {1, 2})
        => (io.ret = 0 /\ WrittenAcross(io.bufs, io.record, io.writes))

\* C17: sys_task_info of a record that straddles one page boundary stores the
\* snapshot so that the two ranges, the first ending at the page boundary, hold
\* its bytes one after the other, stores nothing outside them and returns 0
CrossPageTaskInfo ==
    (io.op = "task_info" /\ io.ptr # 0 /\ Len(io.bufs) = 2)
        => /\ io.ret = 0
           /\ Straddles
           /\ io.record[1] = TaskStatus_Running
           /\ WrittenAcross(io.bufs, io.record, io.writes)

\* a snapshot with counts and padding that are not zero went to two frames
\* that do not follow one another
C17Witness ==
    /\ io.op = "task_info" /\ io.ret = 0
    /\ Len(io.bufs) = 2
    /\ io.bufs[2].pa # io.bufs[1].pa + io.bufs[1].len
    /\ io.record[5] = 0 /\ io.record[6] = 1
    /\ io.record[2] = 170


\* the user pointer is null, or a page of the len bytes at it cannot be written
InvalidPointer(ptr, len) ==
    \/ ptr = 0
    \/ \E v \in floor(ptr) .. floor(ptr + len - 1) : ~writable(v * PAGE_SIZE)

\* the step is a call that is to write len bytes through io'.ptr
WritesThroughPointer(len) ==
    \/ io'.op = "get_time" /\ len = 16
    \/ io'.op = "task_info" /\ len = TaskInfo_size
    \/ /\ io'.op = "waitpid" /\ len = 4
       /\ \E i \in 1 .. Len(children) :
             children[i].zombie /\ waitpid_matches(io'.pid, children[i])

\* C18: get_time, task_info and waitpid with a user pointer that is null or
\* has a page that is unmapped or may not be written return -1, change no
\* kernel state (waitpid keeps the child in the child list) and store nothing
InvalidUserPointer ==
    [][\A len \in {4, 16, TaskInfo_size} :
          (WritesThroughPointer(len) /\ InvalidPointer(io'.ptr, len))
              => /\ io'.ret = 0 - 1
                 /\ io'.writes = {}
                 /\ children' = children
                 /\ panicked' = panicked]_vars


\* C19: unlock() of a MutexBlocking that is not locked halts the kernel with
\* the failed assertion; it wakes no task and leaves locked and the wait
\* queue as they were, and nothing runs afterwards
UnlockUnlockedIsFatal ==
    [][ /\ (last_call' = "unlock" /\ ~locked) =>
              /\ panicked'
              /\ locked' = locked
              /\ wait_queue' = wait_queue
              /\ \A t \in Tasks : ~Wakes(t)
              /\ ready_queue' = ready_queue
        /\ ~panicked ]_vars

\* a mutex that had been acquired and released was unlocked once more
C19Witness ==
    /\ panicked
    /\ last_call = "unlock"
    /\ ~locked
    /\ last_acquirer # NoTask
    /\ mheld = {}


\* C20: while a MutexSpin is held, get_allocation() returns the id of the task
\* whose lock() acquired it; when it is not held, get_allocation() returns None
SpinHolderIntrospection ==
    spin_call.op = "get_allocation" =>
        spin_call.ret = IF spin_locked THEN <<spin_call.acquirer>> ELSE <<>>


WaitpidReapsOnce ==
    [][ (io'.op = "waitpid" /\ ~panicked') =>
          IF io'.ret >= 0
          THEN \E i \in 1 .. Len(children) :
                  /\ children[i].pid = io'.ret
                  /\ children[i].zombie
                  /\ Len(children') = Len(children) - 1
                  /\ \A j \in 1 .. (i - 1) : children'[j] = children[j]
                  /\ \A j \in i .. Len(children') : children'[j] = children[j + 1]
                  /\ \A j \in 1 .. Len(children') : children'[j].pid # io'.ret
                  /\ (io'.pid = 0 - 1) => \A j \in 1 .. (i - 1) : ~children[j].zombie
          ELSE io'.ret \in {0 - 1, 0 - 2} /\ children' = children
      ]_vars

\* asked for any child while two were zombies, waitpid returned one and the
\* other is still in the list
C22Witness ==
    /\ io.op = "waitpid" /\ io.pid = 0 - 1 /\ io.ret > 0
    /\ ~panicked
    /\ Len(children) = 1 /\ children[1].zombie /\ children[1].pid < io.ret


\* C23: after any sequence of sys_linkat and sys_unlinkat calls on an inode its
\* link count is the initial count plus the linkat calls that returned 0 minus
\* the unlinkat calls that returned 0; a call that returns -1 leaves the count
\* as it was; the data is cleared only by an unlinkat that returns 0 and
\* brings the count to 0
LinkCountAccounting ==
    [][ /\ nlink' = 1 + fs_call'.linked - fs_call'.unlinked
        /\ (fs_call'.ret = 0 - 1) => (nlink' = nlink)
        /\ (cleared' # cleared \/ fs_call'.clears) =>
              (fs_call'.op = "unlinkat" /\ fs_call'.ret = 0 /\ nlink' = 0)
      ]_vars

\* a link failed after another had been made and one name had been removed
C23Witness ==
    /\ fs_call.op = "linkat" /\ fs_call.ret = 0 - 1
    /\ fs_call.linked >= 1 /\ fs_call.unlinked >= 1
    /\ nlink = 1 /\ names # {} /\ ~cleared


InWaitQueue(t) == \E i \in 1 .. Len(wait_queue) : wait_queue[i] = t

\* C24: in every reachable state a wait queue that is not empty implies
\* locked, and every task in the wait queue is Blocked and not in the ready
\* pool; a task that is woken enters the ready pool once and is no longer in
\* the wait queue
WaitQueueConsistency ==
    /\ [](/\ (wait_queue # <<>>) => locked
          /\ \A t \in Tasks :
                InWaitQueue(t) => (task_status[t] = "Blocked" /\ ready_queue[t] = 0))
    /\ [][\A t \in Tasks :
             Wakes(t) => /\ InWaitQueue(t)
                         /\ ready_queue[t] = 0 /\ ready_queue'[t] = 1
                         /\ task_status'[t] = "Ready"
                         /\ \A i \in 1 .. Len(wait_queue') : wait_queue'[i] # t]_vars

\* the head of the queue has been woken and waits for the processor, the
\* task behind it is still queued
C24Witness ==
    /\ locked
    /\ Len(wait_queue) = 1
    /\ \E w \in Tasks : Pending(w) /\ ready_queue[w] = 1 /\ ~InWaitQueue(w)
    /\ task_status[wait_queue[1]] = "Blocked"


\* C25: after a sys_set_priority that succeeds, whatever prio >= 2 the
\* argument holds, the stride of the task is at least 1, and so the pass of a
\* task grows with each slice it is charged for
PositiveStride ==
    /\ [][(sp'.op = "set_priority" /\ sp'.ret # 0 - 1) => stride'[current] >= 1]_vars
    /\ [][(n_sched'.disp # n_sched.disp) => pass'[current] > pass[current]]_vars


\* C26: if every task that holds the MutexBlocking eventually calls unlock()
\* and the scheduler eventually runs every Ready task, a task that blocks in
\* lock() is eventually woken and holds the mutex, while other tasks keep
\* calling lock()
NoStarvation ==
    \A t \in Tasks :
        InWaitQueue(t) ~> (t \in mheld /\ ~InWaitQueue(t) /\ task_status[t] # "Blocked")

\* a task that had blocked in lock() holds the mutex and runs, and the two
\* other tasks wait in the queue
C26Witness ==
    \E t \in Tasks :
        /\ mheld = {t}
        /\ current = t
        /\ last_acquirer = t
        /\ allocate_tid # t
        /\ Len(wait_queue) = 2

====
